---- MODULE Spec2Model ----
(***************************************************************************)
(* WindMouse: the trajectory generator wind_mouse (src/src/core.py) and    *)
(* the tick() of the mouse controllers built on it                         *)
(* (src/src/pyautogui_controller.py, src/src/ahk_controller.py).           *)
(*                                                                         *)
(* Floating-point quantities (position, velocity, wind, max_step) are held *)
(* in fixed point: an integer n stands for n / Scale pixels.  Products and *)
(* quotients are truncated toward zero.  Comparisons of the source are     *)
(* made exactly on the quantised values.  A call of np.random.random() is  *)
(* a value k / DrawDen with k in 0 .. DrawDen - 1, that is, in [0, 1).     *)
(***************************************************************************)
EXTENDS Integers, Naturals, Sequences, FiniteSets, TLC

\* ------------------------------------------------------------- bounds
\* Fixed-point resolution: units per pixel.
Scale == 4
\* Resolution of a random draw: draws are 0/DrawDen .. (DrawDen-1)/DrawDen.
DrawDen == 2
\* Destinations lie in 0..MaxCoord on both axes.
MaxCoord == 2
\* Loop iterations one generator may run.
MaxSteps == 6
\* Targets a controller is given over its life.
MaxTargets == 2

Draws == 0 .. (DrawDen - 1)
DrawSeqs == [1 .. 3 -> Draws]
Points == (0 .. MaxCoord) \X (0 .. MaxCoord)

\* ------------------------------------------------------------- arithmetic
Abs(x) == IF x < 0 THEN -x ELSE x

Min(a, b) == IF a <= b THEN a ELSE b

\* float division, truncated toward zero on the fixed-point grid
TDiv(a, b) ==
    IF (a >= 0) = (b > 0) THEN Abs(a) \div Abs(b) ELSE -(Abs(a) \div Abs(b))

RECURSIVE ISqrtIn(_, _, _)
\* the k in lo .. hi - 1 with k * k <= n < (k + 1) * (k + 1), by bisection
ISqrtIn(n, lo, hi) ==
    IF hi - lo <= 1 THEN lo
    ELSE IF ((lo + hi) \div 2) * ((lo + hi) \div 2) <= n
         THEN ISqrtIn(n, (lo + hi) \div 2, hi)
         ELSE ISqrtIn(n, lo, (lo + hi) \div 2)

\* np.hypot on fixed-point arguments: floor of the Euclidean norm, so that
\* Hypot(x, y) >= c holds exactly when the norm is >= c for an integer c
Hypot(x, y) == ISqrtIn(x * x + y * y, 0, Abs(x) + Abs(y) + 1)

\* ceiling of a norm whose floor is f: CeilNorm(.) > c exactly when the norm > c
CeilNorm(x, y, f) == IF f * f = x * x + y * y THEN f ELSE f + 1

HypotUp(x, y) == CeilNorm(x, y, Hypot(x, y))

\* x / sqrt3, sqrt3 = np.sqrt(3) ~ 1.732
DivSqrt3(x) == TDiv(x * 1000, 1732)

\* x / sqrt5, sqrt5 = np.sqrt(5) ~ 2.236
DivSqrt5(x) == TDiv(x * 1000, 2236)

\* int(np.round(x)) of a fixed-point x: nearest integer, ties to even
Round(x) ==
    LET q == x \div Scale
        r == x - q * Scale
    IN  IF 2 * r < Scale THEN q
        ELSE IF 2 * r > Scale THEN q + 1
        ELSE IF q % 2 = 0 THEN q ELSE q + 1

\* ------------------------------------------------------------- parameters
\* gravity_magnitude, wind_magnitude, max_step, damped_distance (pixels)
DefaultParams == [g |-> 9, w |-> 3, ms |-> 15, dd |-> 12]

\* the parameter tuples a generator is constructed with: the defaults, a
\* max_step below 3 (with the default and with a weaker gravity), a small
\* damped_distance (free wind near the target), a weak gravity, and two tuples
\* outside the documented positive domain
ParamSets ==
    { DefaultParams,
      [g |-> 9, w |-> 3, ms |-> 2, dd |-> 12],
      [g |-> 2, w |-> 3, ms |-> 2, dd |-> 12],
      [g |-> 9, w |-> 3, ms |-> 15, dd |-> 1],
      [g |-> 1, w |-> 3, ms |-> 15, dd |-> 12],
      [g |-> 9, w |-> 3, ms |-> 15, dd |-> 0],
      [g |-> 9, w |-> 3, ms |-> 0, dd |-> 12] }

\* the tuples a controller is constructed with
CtlParamSets == { p \in ParamSets : p.dd = DefaultParams.dd }

ValidParams(p) == p.g > 0 /\ p.w > 0 /\ p.ms > 0 /\ p.dd > 0

\* ------------------------------------------------------------- generator
NoPoint == <<-1, -1>>

NoStep == [ms |-> 0, ax |-> 0, ay |-> 0, clipped |-> FALSE, clip |-> 0,
           yielded |-> FALSE]

\* a generator that does not exist (controller without target)
NoGen ==
    [st |-> "none", p |-> DefaultParams, start |-> NoPoint, dest |-> NoPoint,
     sx |-> 0, sy |-> 0, cx |-> 0, cy |-> 0, vx |-> 0, vy |-> 0,
     wx |-> 0, wy |-> 0, ms |-> 0, steps |-> 0, nd |-> 0, out |-> <<>>,
     last |-> NoStep]

\* wind_mouse(start_x, start_y, dest_x, dest_y, ...): the generator object and
\* the assignments made before the loop.  st is the generator's position:
\* "suspended" (created, or stopped at a yield), "running" (inside a next()),
\* "done" (the loop has exited).  out is the sequence of points yielded so far,
\* steps and nd count loop iterations and random draws, last records the
\* latest iteration.
NewGen(p, start, dest) ==
    [st |-> "suspended", p |-> p, start |-> start, dest |-> dest,
     sx |-> start[1] * Scale, sy |-> start[2] * Scale,
     cx |-> start[1] * Scale, cy |-> start[2] * Scale,
     vx |-> 0, vy |-> 0, wx |-> 0, wy |-> 0,
     ms |-> p.ms * Scale, steps |-> 0, nd |-> 0, out |-> <<>>,
     last |-> NoStep]

\* dist := np.hypot(dest_x - start_x, dest_y - start_y)
Dist(g) == Hypot(g.dest[1] * Scale - g.sx, g.dest[2] * Scale - g.sy)

\* while dist >= 1
LoopCond(g) == Dist(g) >= Scale

\* (2 * np.random.random() - 1) * wind_magnitude_current / sqrt5
WindNoise(r, wmc) == TDiv((2 * r - DrawDen) * wmc * 1000, DrawDen * 2236)

\* np.random.random() * 3 + 3
FreshMaxStep(r) == TDiv(r * 3 * Scale, DrawDen) + 3 * Scale

\* max_step / 2 + np.random.random() * max_step / 2, rounded up on the grid
\* (so that the quantised value stays in [max_step / 2, max_step])
VelocityClipWide(ms, r) == -((-(ms * (DrawDen + 3 * r))) \div (2 * DrawDen))

VelocityClip(ms, r) == -((-(ms * (DrawDen + r))) \div (2 * DrawDen))

DiffersBoth(cx, cy, mx, my) == cx # mx * Scale /\ cy # my * Scale

\* if current_x != move_x or current_y != move_y
Differs(cx, cy, mx, my) == cx # mx * Scale \/ cy # my * Scale

\* Lines 66-70: the rounded position, the comparison with current_x,
\* current_y, and the yield.
Emit(g, mx, my, yields) ==
    [g EXCEPT
        !.cx = IF yields THEN g.sx ELSE g.cx,
        !.cy = IF yields THEN g.sy ELSE g.cy,
        !.out = IF yields THEN Append(g.out, <<mx, my>>) ELSE g.out,
        !.st = IF yields THEN "suspended" ELSE "running",
        !.last = [g.last EXCEPT !.yielded = yields]]

\* Lines 64-65: start_x += velocity_x; start_y += velocity_y
Advance(g, vx1, vy1) ==
    [g EXCEPT !.sx = g.sx + vx1, !.sy = g.sy + vy1, !.vx = vx1, !.vy = vy1]

\* Lines 59-63: the velocity clip.  ax, ay is the accumulated velocity, vmag its
\* magnitude, r the draw a clip consumes.
Clip(g, ax, ay, vmag, r) ==
    IF vmag > g.ms
    THEN [Advance(g, TDiv(ax * VelocityClip(g.ms, r), vmag),
                     TDiv(ay * VelocityClip(g.ms, r), vmag))
            EXCEPT !.nd = g.nd + 1,
                   !.last = [ms |-> g.ms, ax |-> ax, ay |-> ay,
                             clipped |-> TRUE,
                             clip |-> VelocityClip(g.ms, r),
                             yielded |-> FALSE]]
    ELSE [Advance(g, ax, ay)
            EXCEPT !.last = [ms |-> g.ms, ax |-> ax, ay |-> ay,
                             clipped |-> FALSE, clip |-> 0,
                             yielded |-> FALSE]]

\* Lines 57-58: velocity += wind + gravity_magnitude * (dest - start) / dist
Accumulate(g, dist) ==
    <<g.vx + g.wx + TDiv(g.p.g * Scale * (g.dest[1] * Scale - g.sx), dist),
      g.vy + g.wy + TDiv(g.p.g * Scale * (g.dest[2] * Scale - g.sy), dist)>>

\* Lines 40-56: the wind and max_step of this iteration.  r1, r2 are the next
\* two values of np.random.random().
Wind(g, dist, r1, r2) ==
    IF dist >= g.p.dd * Scale
    THEN [g EXCEPT
            !.wx = DivSqrt3(g.wx) + WindNoise(r1, Min(g.p.w * Scale, dist)),
            !.wy = DivSqrt3(g.wy) + WindNoise(r2, Min(g.p.w * Scale, dist)),
            !.nd = g.nd + 2]
    ELSE IF g.ms < 3 * Scale
    THEN [g EXCEPT !.wx = DivSqrt3(g.wx), !.wy = DivSqrt3(g.wy),
                   !.ms = FreshMaxStep(r1), !.nd = g.nd + 1]
    ELSE [g EXCEPT !.wx = DivSqrt3(g.wx), !.wy = DivSqrt3(g.wy),
                   !.ms = DivSqrt5(g.ms)]

\* the element of a singleton: The({e}) is e, evaluated once
The(S) == CHOOSE v \in S : TRUE

ClipOf(g, a, r) ==
    The({ Clip(g, a[1], a[2], vmag, r) : vmag \in {HypotUp(a[1], a[2])} })

EmitOf(g) ==
    Emit(g, Round(g.sx), Round(g.sy),
         Differs(g.cx, g.cy, Round(g.sx), Round(g.sy)))

\* the draws an iteration with wind-and-max_step result g1 has consumed
Used(g, g1) == g1.nd - g.nd

StepFrom(g, g1, dist, d) ==
    The({ EmitOf(c) :
            c \in { ClipOf(g1, a, d[Used(g, g1) + 1]) :
                      a \in {Accumulate(g1, dist)} } })

\* One iteration of the loop body (lines 40-70).  d[1], d[2], d[3] are the
\* values the next calls of np.random.random() return, in call order.
StepAt(g, dist, d) ==
    The({ StepFrom(g, g1, dist, d) :
            g1 \in {Wind([g EXCEPT !.steps = g.steps + 1],
                         dist, d[1], d[2])} })

Step(g, d) == The({ StepAt(g, dist, d) : dist \in {Dist(g)} })

\* The generator's next(), one loop test at a time: the loop exits (the
\* generator is exhausted) or one iteration runs, which yields or not.
Resume(g, d) == IF LoopCond(g) THEN Step(g, d) ELSE [g EXCEPT !.st = "done"]

\* ------------------------------------------------------------- controller
VARIABLES
    gen,    \* the (controller's) live trajectory generator
    ctl,    \* the controller: parameters, target, pointer, tick in progress
    genB,   \* a second generator, consumed beside gen
    rng     \* np.random's global state, once seeded: [seed, x]

vars == <<gen, ctl, genB, rng>>

\* np.random's global generator before np.random.seed: its state is unknown,
\* and every call of np.random.random() may return any value
Unseeded == [seed |-> 0, x |-> 0]

\* coords is None
None == <<>>

ForwardAlways(moves, coords) ==
    Append(moves, IF coords = None THEN NoPoint ELSE <<coords[1], coords[2]>>)

ForwardSwapped(moves, coords) ==
    IF coords = None THEN moves ELSE Append(moves, <<coords[2], coords[1]>>)

\* tick(): the backend calls after "if coords is None: return False;
\* <backend move>(coords[0], coords[1])"
Forward(moves, coords) ==
    IF coords = None THEN moves ELSE Append(moves, <<coords[1], coords[2]>>)

TickReturnTrue(coords) == "true"

\* tick(): the value returned
TickReturn(coords) == IF coords = None THEN "false" ELSE "true"

\* The controller after construction: no target (Idle), the pointer at the
\* origin.  moves are the backend move calls made for the current target, ret
\* the value the latest completed tick() returned, pc = "tick" while a tick()
\* is inside the generator.
Init ==
    /\ gen = NoGen
    /\ genB = NoGen
    /\ rng = Unseeded
    /\ \E p \in CtlParamSets :
         ctl = [p |-> p, target |-> NoPoint, pos |-> <<0, 0>>, moves |-> <<>>,
                ret |-> "none", pc |-> "idle", ntargets |-> 0]

\* Setting or changing the target: the existing generator is dropped; the next
\* one is constructed lazily, from the pointer position at that moment.
SetTarget(d) ==
    /\ ctl.pc = "idle"
    /\ ctl.ntargets < MaxTargets
    /\ d # ctl.target
    /\ ctl' = [ctl EXCEPT !.target = d, !.moves = <<>>, !.ret = "none",
                          !.ntargets = ctl.ntargets + 1]
    /\ gen' = NoGen
    /\ UNCHANGED <<genB, rng>>

\* tick() with no target (Idle) or with the generator exhausted (Done):
\* _get_next_point() gives None.
TickNoPoint ==
    /\ ctl.pc = "idle"
    /\ ctl.target = NoPoint \/ gen.st = "done"
    /\ ctl' = [ctl EXCEPT !.moves = Forward(ctl.moves, None),
                          !.ret = TickReturn(None)]
    /\ UNCHANGED <<gen, genB, rng>>

\* tick() with a target: _get_next_point() constructs the generator if there
\* is none and enters its next().
TickEnter ==
    /\ ctl.pc = "idle"
    /\ ctl.target # NoPoint
    /\ gen.st \in {"none", "suspended"}
    /\ gen' = [(IF gen.st = "none" THEN NewGen(ctl.p, ctl.pos, ctl.target)
                ELSE gen) EXCEPT !.st = "running"]
    /\ ctl' = [ctl EXCEPT !.pc = "tick"]
    /\ UNCHANGED <<genB, rng>>

\* tick() after _get_next_point() has returned coords
Deliver(c, coords) ==
    [c EXCEPT !.moves = Forward(c.moves, coords),
              !.ret = TickReturn(coords),
              !.pos = IF coords = None THEN c.pos ELSE coords,
              !.pc = "idle"]

\* what next() hands to _get_next_point(): the point yielded, None at the end
Coords(g) == IF g.st = "suspended" THEN g.out[Len(g.out)] ELSE None

Resumed(g2) ==
    /\ gen' = g2
    /\ ctl' = IF g2.st = "running" THEN ctl ELSE Deliver(ctl, Coords(g2))

\* Inside next(): the loop test and, if it passes, one iteration.  A yield hands
\* the point to tick(), which forwards it; the loop's exit hands it None.
TickRun ==
    /\ ctl.pc = "tick"
    /\ gen.steps < MaxSteps \/ ~LoopCond(gen)
    /\ \E d \in DrawSeqs : \E g2 \in {Resume(gen, d)} : Resumed(g2)
    /\ UNCHANGED <<genB, rng>>

Next ==
    \/ \E d \in Points : SetTarget(d)
    \/ TickNoPoint
    \/ TickEnter
    \/ TickRun

Spec == Init /\ [][Next]_vars

\* ------------------------------------------------------------- generator alone
\* A generator consumed directly, without a controller.
StartPoints == {<<0, 0>>, <<1, 0>>}

NoCtl == [p |-> DefaultParams, target |-> NoPoint, pos |-> <<0, 0>>,
          moves |-> <<>>, ret |-> "none", pc |-> "idle", ntargets |-> 0]

GenInit ==
    /\ ctl = NoCtl
    /\ genB = NoGen
    /\ rng = Unseeded
    /\ \E p \in ParamSets, s \in StartPoints, d \in Points :
         gen = NewGen(p, s, d)

\* the consumer calls next() on the generator
GenNext ==
    /\ gen.st = "suspended"
    /\ gen' = [gen EXCEPT !.st = "running"]
    /\ UNCHANGED <<ctl, genB, rng>>

\* inside next(): the loop test and, if it passes, one iteration
GenRun ==
    /\ gen.st = "running"
    /\ gen.steps < MaxSteps \/ ~LoopCond(gen)
    /\ \E d \in DrawSeqs : gen' = Resume(gen, d)
    /\ UNCHANGED <<ctl, genB, rng>>

GenStep == GenNext \/ GenRun

GenSpec == GenInit /\ [][GenStep]_vars

\* ------------------------------------------------------------- two generators
\* np.random is one global pseudo-random generator: a deterministic sequence
\* of states fixed by the seed, one state consumed by each call of
\* np.random.random(), whichever generator makes the call.
RngNext(x) == (5 * x + 3) % 16

\* the value np.random.random() returns in state x
RngOut(x) == (x * DrawDen) \div 16

\* the values the next three calls return
DrawsFrom(x) ==
    [i \in 1 .. 3 |->
        IF i = 1 THEN RngOut(x)
        ELSE IF i = 2 THEN RngOut(RngNext(x))
        ELSE RngOut(RngNext(RngNext(x)))]

RECURSIVE RngSkip(_, _)
\* the state after n calls
RngSkip(x, n) == IF n = 0 THEN x ELSE RngSkip(RngNext(x), n - 1)

Seeds == {1, 6}

\* the arguments the two generators are constructed with
PairParamSets == { p \in ParamSets : ValidParams(p) /\ p.g = DefaultParams.g }

\* Two generators constructed with the same arguments.
PairInit ==
    /\ ctl = NoCtl
    /\ \E p \in PairParamSets, d \in Points :
         /\ gen = NewGen(p, <<0, 0>>, d)
         /\ genB = gen
    /\ \E s \in Seeds : rng = [seed |-> s, x |-> s]

\* The consumer calls next() on a generator while the other is not inside a
\* next().  Before a generator's first next() the consumer calls
\* np.random.seed(seed): each generator starts from the same seeded source.
PairEnter(g, other) ==
    /\ g.st = "suspended"
    /\ other.st # "running"
    /\ rng' = IF g.steps = 0 THEN [rng EXCEPT !.x = rng.seed] ELSE rng

PairNextA ==
    /\ PairEnter(gen, genB)
    /\ gen' = [gen EXCEPT !.st = "running"]
    /\ UNCHANGED <<ctl, genB>>

PairNextB ==
    /\ PairEnter(genB, gen)
    /\ genB' = [genB EXCEPT !.st = "running"]
    /\ UNCHANGED <<ctl, gen>>

\* inside next(): the loop test and one iteration, its draws taken from the
\* global generator
PairResume(g, g2) ==
    /\ g.st = "running"
    /\ g.steps < MaxSteps \/ ~LoopCond(g)
    /\ rng' = [rng EXCEPT !.x = RngSkip(rng.x, g2.nd - g.nd)]

PairRunA ==
    /\ \E g2 \in {Resume(gen, DrawsFrom(rng.x))} :
         /\ PairResume(gen, g2)
         /\ gen' = g2
    /\ UNCHANGED <<ctl, genB>>

PairRunB ==
    /\ \E g2 \in {Resume(genB, DrawsFrom(rng.x))} :
         /\ PairResume(genB, g2)
         /\ genB' = g2
    /\ UNCHANGED <<ctl, gen>>

PairStep == PairNextA \/ PairNextB \/ PairRunA \/ PairRunB

PairSpec == PairInit /\ [][PairStep]_vars

\* ------------------------------------------------------------- termination
\* A generator consumed until it is exhausted, with no bound on its
\* iterations.  The counters and the yielded sequence are not kept; the point
\* yielded last is.
Forget(g) ==
    [g EXCEPT !.steps = Min(g.steps, 1), !.nd = 0,
              !.out = IF g.out = <<>> THEN <<>> ELSE <<g.out[Len(g.out)]>>]

\* gravity_magnitude >= 1, max_step >= 1, default wind and damped distance
ReasonableParams(p) ==
    /\ p.g >= 1
    /\ p.ms >= 1
    /\ p.w = DefaultParams.w
    /\ p.dd = DefaultParams.dd

LiveInit ==
    /\ ctl = NoCtl
    /\ genB = NoGen
    /\ rng = Unseeded
    /\ \E p \in ParamSets, s \in StartPoints, d \in Points :
         /\ ReasonableParams(p)
         /\ gen = NewGen(p, s, d)

LiveNext ==
    /\ gen.st = "suspended"
    /\ gen' = [gen EXCEPT !.st = "running"]
    /\ UNCHANGED <<ctl, genB, rng>>

LiveRun ==
    /\ gen.st = "running"
    /\ \E d \in DrawSeqs : \E g2 \in {Resume(gen, d)} : gen' = Forget(g2)
    /\ UNCHANGED <<ctl, genB, rng>>

LiveStep == LiveNext \/ LiveRun

\* the consumer keeps calling next() (move_to_target ticks until a tick
\* returns false) and a running loop keeps running
LiveSpec == LiveInit /\ [][LiveStep]_vars /\ WF_vars(LiveNext) /\ WF_vars(LiveRun)

\* ------------------------------------------------------------- properties
Last(q) == q[Len(q)]

Sq(x) == x * x

\* the point the generator compares a new rounded position with, as the
\* contract has it: the point yielded last, the start point before any yield
Reference(g) == IF g.out = <<>> THEN g.start ELSE Last(g.out)

Rounded(g) == <<Round(g.sx), Round(g.sy)>>

\* C1: with positive parameters, no two consecutively yielded points are equal.
NoConsecutiveDuplicates ==
    ValidParams(gen.p) =>
        \A i \in 1 .. Len(gen.out) - 1 : gen.out[i] # gen.out[i + 1]

\* C2: with positive parameters, when the generator has terminated after
\* yielding at least one point, the last point yielded is at Euclidean distance
\* at most 1 from the destination.
LastPointWithinOne ==
    (ValidParams(gen.p) /\ gen.st = "done" /\ gen.out # <<>>) =>
        Sq(Last(gen.out)[1] - gen.dest[1])
            + Sq(Last(gen.out)[2] - gen.dest[2]) <= 1

\* C6: a generator constructed with a non-positive max_step, gravity_magnitude
\* or damped_distance runs no simulation step and yields no point.
InvalidParamsFailFast ==
    (gen.st # "none" /\ ~ValidParams(gen.p)) =>
        (gen.steps = 0 /\ gen.out = <<>>)

\* C9: with a positive max_step, the velocity applied in an iteration has
\* magnitude at most the max_step in effect in that iteration; a velocity that
\* exceeded it was rescaled to velocity_clip, a value in [max_step / 2,
\* max_step], keeping its direction (up to the grid's truncation); a velocity
\* that did not exceed it was applied unchanged.
StepSizeBound ==
    (gen.steps > 0 /\ gen.p.ms > 0) =>
        /\ gen.last.ms > 0
        /\ Sq(gen.vx) + Sq(gen.vy) <= Sq(gen.last.ms)
        /\ gen.last.clipped =>
             /\ Sq(gen.last.ax) + Sq(gen.last.ay) > Sq(gen.last.ms)
             /\ 2 * gen.last.clip >= gen.last.ms
             /\ gen.last.clip <= gen.last.ms
             /\ Sq(gen.vx) + Sq(gen.vy) <= Sq(gen.last.clip)
             /\ gen.vx * gen.last.ax >= 0
             /\ gen.vy * gen.last.ay >= 0
             /\ Abs(gen.last.ax * gen.vy - gen.last.ay * gen.vx)
                    <= Abs(gen.last.ax) + Abs(gen.last.ay)
        /\ ~gen.last.clipped =>
             /\ gen.vx = gen.last.ax
             /\ gen.vy = gen.last.ay

\* an iteration that clipped the velocity to a clip value above max_step / 2
StepSizeBoundWitness ==
    /\ gen.steps > 1
    /\ ValidParams(gen.p)
    /\ gen.last.clipped
    /\ 2 * gen.last.clip > gen.last.ms
    /\ gen.vx # 0
    /\ gen.vy # 0

\* C10: an iteration whose rounded position differs from the point yielded last
\* (from the start point, before any yield) yields that rounded position; an
\* iteration that yields nothing has still advanced the position by the new
\* velocity, and the velocity, wind and max_step are those of the iteration.
NoChangeLost ==
    [][gen'.steps = gen.steps + 1 =>
         /\ Rounded(gen') # Reference(gen) =>
                gen'.out = Append(gen.out, Rounded(gen'))
         /\ gen'.out = gen.out =>
                /\ gen'.sx = gen.sx + gen'.vx
                /\ gen'.sy = gen.sy + gen'.vy
                /\ gen'.st = "running"
                /\ \E d \in DrawSeqs :
                     /\ gen'.wx = Wind(gen, Dist(gen), d[1], d[2]).wx
                     /\ gen'.wy = Wind(gen, Dist(gen), d[1], d[2]).wy
                     /\ gen'.ms = Wind(gen, Dist(gen), d[1], d[2]).ms]_vars

\* a silent iteration after a yield, which moved the continuous position
NoChangeLostWitness ==
    /\ gen.steps > 1
    /\ gen.out # <<>>
    /\ ~gen.last.yielded
    /\ (gen.vx # 0 \/ gen.vy # 0)

\* C3: exhaustion is absorbing.  Once tick() has returned false, every step
\* that leaves the target unchanged leaves the result false, makes no backend
\* move call and starts no generator run; and while no target is set no tick()
\* returns true or makes a backend move call.
ExhaustionAbsorbing ==
    [][/\ (ctl.ret = "false" /\ ctl'.target = ctl.target) =>
              /\ ctl'.ret = "false"
              /\ ctl'.moves = ctl.moves
              /\ ctl'.pc = "idle"
              /\ gen'.out = gen.out
       /\ ctl'.target = NoPoint =>
              /\ ctl'.ret # "true"
              /\ ctl'.moves = <<>>]_vars

\* a tick() has returned false after the generator was exhausted by ticks that
\* moved the pointer
ExhaustionAbsorbingWitness ==
    /\ ctl.ret = "false"
    /\ gen.st = "done"
    /\ Len(ctl.moves) > 1

\* C4: a tick() returns true exactly when the generator produced a next point,
\* and then makes one backend move call, with that point; a tick() that
\* returns false, and a step inside a tick(), make none; so the backend move
\* calls for a target are the generator's yielded sequence, in order.
TickForwardsEachPoint ==
    [][/\ ctl'.moves = gen'.out
       /\ (ctl.pc = "tick" /\ ctl'.pc = "idle") =>
              IF gen'.out # gen.out
              THEN /\ ctl'.ret = "true"
                   /\ Len(gen'.out) = Len(gen.out) + 1
                   /\ ctl'.moves = Append(ctl.moves, Last(gen'.out))
                   /\ ctl'.pos = Last(gen'.out)
              ELSE /\ ctl'.ret = "false"
                   /\ ctl'.moves = ctl.moves
       /\ (ctl.pc = "tick" /\ ctl'.pc = "tick") => ctl'.moves = ctl.moves
       /\ ctl'.ret = "true" => ctl'.moves # <<>>]_vars

\* three ticks have returned true, the last one for a point off the diagonal
TickForwardsWitness ==
    /\ ctl.ret = "true"
    /\ Len(ctl.moves) > 2
    /\ Last(ctl.moves)[1] # Last(ctl.moves)[2]

\* C5: a generator whose destination is its start point runs no iteration,
\* consumes no draw and yields nothing: its loop test fails at once; the tick()
\* that runs it returns false and no backend move call is made.
EqualStartYieldsNothing ==
    (gen.st # "none" /\ gen.start = gen.dest) =>
        /\ ~LoopCond(gen)
        /\ gen.steps = 0
        /\ gen.nd = 0
        /\ gen.out = <<>>
        /\ ctl.moves = <<>>
        /\ ctl.ret # "true"
        /\ ctl.pc = "idle" => (gen.st = "done" /\ ctl.ret = "false")

\* the first tick() for a target equal to the pointer position has returned
\* false, for a second target, reached after the pointer was moved
EqualStartWitness ==
    /\ gen.st = "done"
    /\ gen.start = gen.dest
    /\ gen.start # <<0, 0>>
    /\ ctl.ret = "false"

\* C7: two generators constructed with the same arguments, each started from
\* the same seed, yield the same sequence of points, however their next()
\* calls are interleaved.
SameSeedSameSequence ==
    (gen.st = "done" /\ genB.st = "done") => gen.out = genB.out

\* C8: with gravity_magnitude >= 1, max_step >= 1 and the default wind and
\* damped distance, a generator that is consumed eventually exits its loop.
EventuallyExits == <>(gen.st = "done")

====
